---- MODULE Spec2Model ----
(***************************************************************************)
(* OnedriveAudit: the delta reconciliation engine (DeltaProcessorService), *)
(* the queue worker (processDeltaBatch), the bootstrap (startRoutine), the *)
(* subscription manager (SubscriptionService) and the notification sink    *)
(* (onOneDriveWebhookNotification), over the Prisma repositories.          *)
(*                                                                         *)
(* Every handler is an async function: it runs to its next await, and      *)
(* other invocations of the Functions host run in between.  An invocation  *)
(* is a process p of Procs; one action is the code between two awaits,     *)
(* with the awaited call's effect and result at its start.                 *)
(***************************************************************************)
EXTENDS Integers, Sequences, FiniteSets, TLC

VARIABLES
    PROCESS_DELTA_ENABLED,   \* process.env.PROCESS_DELTA_ENABLED = 'true'
    configInstance,          \* config singleton: "null", or its processDeltaEnabled
    driveItems,              \* table drive_items: a set of rows
    changeEvents,            \* table change_events: rows in insertion order
    deltaState,              \* table delta_state: driveId -> deltaToken, or NoState
    webhookSubscriptions,    \* table webhook_subscriptions: a set of rows
    graphSubscriptions,      \* the provider's subscriptions
    subSeq,                  \* ids handed out so far by the provider and the table
    now,                     \* the clock, in hours
    loc,                     \* per invocation: handler, position and locals
    fed,                     \* delta items the provider has delivered so far
    sinkResp,                \* the notification sink's last response
    replay,                  \* the replay harness: page, pass and event counts
    probe,                   \* validateToken called alone: the probe's outcome, the result
    pager                    \* queryDeltaComplete called alone: the provider's pages, the loop

storeVars == <<driveItems, changeEvents, deltaState>>
subVars   == <<webhookSubscriptions, graphSubscriptions, subSeq, now>>
gateVars  == <<PROCESS_DELTA_ENABLED, configInstance>>
procVars  == <<loc, fed>>
vars == <<PROCESS_DELTA_ENABLED, configInstance, driveItems, changeEvents,
          deltaState, webhookSubscriptions, graphSubscriptions, subSeq, now,
          loc, fed, sinkResp, replay, probe, pager>>

----------------------------------------------------------------------------
(* Bounds of the model. *)

MaxItems == 2            \* items one pass receives, over all its pages
MaxFed == 2              \* items the provider delivers in one behaviour
MaxPages == 2            \* pages one pass fetches
MaxNow == 72             \* the clock's last value, in hours

Procs == {"p1", "p2"}               \* the invocations of one behaviour
ExtIds == {"a", "b"}                 \* Graph item ids
Names == {"n1", "n2"}                \* display names
Cursors == {"C1", "C2"}              \* delta links the provider hands out
DriveIds == {"d1"}                   \* /me/drive of the single user

(* JavaScript's two absent values, for ids (numbers) and for strings. *)
Null == 0
Undefined == -1
NullStr == "null"
UndefinedStr == "undefined"
NoState == "norow"                   \* no delta_state row for the drive

----------------------------------------------------------------------------
(* Values of the program. *)

NoItem == [id |-> "none", name |-> UndefinedStr, parentReference |-> UndefinedStr,
           deleted |-> FALSE]

(* A delta item: live (name, optional parentReference.id) or a tombstone. *)
LiveItems ==
    { [id |-> i, name |-> n, parentReference |-> r, deleted |-> FALSE] :
        i \in ExtIds, n \in Names, r \in (ExtIds \cup {UndefinedStr}) }

Tombstones ==
    { [id |-> i, name |-> UndefinedStr, parentReference |-> UndefinedStr,
       deleted |-> TRUE] : i \in ExtIds }

DeltaItems == { d \in LiveItems : d.parentReference # d.id } \cup Tombstones

NoRow == [id |-> 0, itemId |-> "none", name |-> NullStr, parentId |-> Null,
          isDeleted |-> FALSE, path |-> <<>>]

----------------------------------------------------------------------------
(* DriveItemRepository (Prisma, table drive_items). *)

(* findByItemId: findUnique on itemId, deleted rows included. *)
FindByItemId(rows, itemId) ==
    IF \E r \in rows : r.itemId = itemId
    THEN CHOOSE r \in rows : r.itemId = itemId
    ELSE NoRow

(* findById: findUnique on the internal id. *)
FindById(rows, id) ==
    IF \E r \in rows : r.id = id
    THEN CHOOSE r \in rows : r.id = id
    ELSE NoRow

(* The id the next created row gets (autoincrement; rows are never removed). *)
NextItemId(rows) == Cardinality(rows) + 1

(* upsert: update writes name, path and parentId (a field given as undefined
   is left as it is) and never isDeleted; create stores undefined as NULL. *)
Upsert(rows, data) ==
    LET old == FindByItemId(rows, data.itemId) IN
    IF old # NoRow
    THEN (rows \ {old}) \cup
         { [old EXCEPT !.name = data.name,
                       !.path = data.path,
                       !.parentId = IF data.parentId = Undefined
                                    THEN old.parentId ELSE data.parentId] }
    ELSE rows \cup
         { [id |-> NextItemId(rows), itemId |-> data.itemId, name |-> data.name,
            parentId |-> IF data.parentId = Undefined THEN Null ELSE data.parentId,
            isDeleted |-> FALSE, path |-> data.path] }

(* markDeleted(itemId): the repository's only soft delete. *)
MarkDeleted(rows, itemId) ==
    LET old == FindByItemId(rows, itemId) IN
    (rows \ {old}) \cup { [old EXCEPT !.isDeleted = TRUE] }

(* The methods DriveItemRepository has.  processDeltaItem calls
   markAsDeleted, which is not one of them: the call throws a TypeError. *)
DriveItemRepositoryMethods ==
    {"upsert", "findByItemId", "findById", "markDeleted", "getChildren",
     "findByDriveId", "getItemHierarchy", "delete", "bulkUpsert"}

----------------------------------------------------------------------------
(* ChangeEventRepository.insert: a field given as undefined is stored NULL. *)

DbStr(x) == IF x = UndefinedStr THEN NullStr ELSE x
DbId(x) == IF x = Undefined THEN Null ELSE x

(* A faulty insert: the item's earlier events are dropped when a new one is
   written (one row per item where the table has one row per event). *)
Insert_OneRowPerItem(events, data) ==
    Append(SelectSeq(events, LAMBDA e : e.driveItemId # data.driveItemId),
           [id |-> Len(events) + 1,
            driveItemId |-> data.driveItemId,
            eventType |-> data.eventType,
            oldName |-> DbStr(data.oldName),
            newName |-> DbStr(data.newName),
            oldParentId |-> DbId(data.oldParentId),
            newParentId |-> DbId(data.newParentId)])

Insert(events, data) ==
    Append(events,
           [id |-> Len(events) + 1,
            driveItemId |-> data.driveItemId,
            eventType |-> data.eventType,
            oldName |-> DbStr(data.oldName),
            newName |-> DbStr(data.newName),
            oldParentId |-> DbId(data.oldParentId),
            newParentId |-> DbId(data.newParentId)])

----------------------------------------------------------------------------
(* DeltaStateRepository. *)

(* findByDriveId, then deltaState?.deltaToken. *)
DeltaTokenOf(ds, driveId) ==
    IF ds[driveId] = NoState THEN UndefinedStr ELSE ds[driveId]

(* A faulty updateDeltaToken: an update where the code has an upsert, so a
   drive without a row keeps none. *)
UpdateDeltaToken_UpdateOnly(ds, driveId, deltaToken) ==
    IF ds[driveId] = NoState THEN ds ELSE [ds EXCEPT ![driveId] = deltaToken]

UpdateDeltaToken(ds, driveId, deltaToken) == [ds EXCEPT ![driveId] = deltaToken]

ClearDeltaToken(ds, driveId) ==
    IF ds[driveId] = NoState THEN ds ELSE [ds EXCEPT ![driveId] = ""]

----------------------------------------------------------------------------
(* DeltaProcessorService: the synchronous parts of processDeltaItem. *)

NoChange == [eventType |-> "NONE", oldName |-> UndefinedStr, newName |-> UndefinedStr,
             oldParentId |-> Undefined, newParentId |-> Undefined]

(* A faulty detectChangeType: when name and parent both changed the MOVE is
   reported without the names. *)
DetectChangeType_MoveDropsNames(existingItem, newItem, newParentId) ==
    LET nameChanged == existingItem.name # newItem.name
        parentChanged == existingItem.parentId # newParentId
    IN  IF parentChanged
        THEN [eventType |-> "MOVE", oldName |-> UndefinedStr,
              newName |-> UndefinedStr, oldParentId |-> existingItem.parentId,
              newParentId |-> newParentId]
        ELSE IF nameChanged
        THEN [eventType |-> "RENAME", oldName |-> existingItem.name,
              newName |-> newItem.name, oldParentId |-> Undefined,
              newParentId |-> Undefined]
        ELSE NoChange

(* detectChangeType: !== on the stored parentId (a number or null) and the
   resolved one (a number or undefined). *)
DetectChangeType(existingItem, newItem, newParentId) ==
    LET nameChanged == existingItem.name # newItem.name
        parentChanged == existingItem.parentId # newParentId
    IN  IF nameChanged /\ parentChanged
        THEN [eventType |-> "MOVE", oldName |-> existingItem.name,
              newName |-> newItem.name, oldParentId |-> existingItem.parentId,
              newParentId |-> newParentId]
        ELSE IF nameChanged
        THEN [eventType |-> "RENAME", oldName |-> existingItem.name,
              newName |-> newItem.name, oldParentId |-> Undefined,
              newParentId |-> Undefined]
        ELSE IF parentChanged
        THEN [eventType |-> "MOVE", oldName |-> UndefinedStr,
              newName |-> UndefinedStr, oldParentId |-> existingItem.parentId,
              newParentId |-> newParentId]
        ELSE NoChange

(* buildPath: `/${item.name}`, as the sequence of the path's segments. *)
BuildPath(item) == <<item.name>>

(* parentItem?.id for item.parentReference?.id. *)
ResolveParentId(rows, item) ==
    IF item.parentReference = UndefinedStr
    THEN Undefined
    ELSE LET parentItem == FindByItemId(rows, item.parentReference) IN
         IF parentItem = NoRow THEN Undefined ELSE parentItem.id

UpsertData(item, parentId) ==
    [itemId |-> item.id, name |-> item.name, path |-> BuildPath(item),
     parentId |-> parentId]

CreateEvent(newItem, item, parentId) ==
    [driveItemId |-> newItem.id, eventType |-> "CREATE", oldName |-> UndefinedStr,
     newName |-> item.name, oldParentId |-> Undefined, newParentId |-> parentId]

DeleteEvent(existingItem) ==
    [driveItemId |-> existingItem.id, eventType |-> "DELETE",
     oldName |-> existingItem.name, newName |-> UndefinedStr,
     oldParentId |-> Undefined, newParentId |-> Undefined]

ChangeEventOf(existingItem, change) ==
    [driveItemId |-> existingItem.id, eventType |-> change.eventType,
     oldName |-> change.oldName, newName |-> change.newName,
     oldParentId |-> change.oldParentId, newParentId |-> change.newParentId]

----------------------------------------------------------------------------
(* config/index.ts: the gate is the environment variable; getConfig caches
   the value the variable had when the configuration was first loaded. *)

(* A faulty isDeltaProcessingEnabled: the truthiness of the variable's
   string ("false" is truthy) where the code compares with "true". *)
isDeltaProcessingEnabled_Truthy == TRUE

isDeltaProcessingEnabled == PROCESS_DELTA_ENABLED

(* enableDeltaProcessing / disableDeltaProcessing: the value the variable
   has afterwards. *)
enableDeltaProcessing == TRUE

(* A faulty disableDeltaProcessing: the variable is left as it is. *)
disableDeltaProcessing_Noop == PROCESS_DELTA_ENABLED

disableDeltaProcessing == FALSE

(* getConfig: loadConfig on first access, the cached instance afterwards. *)
GetConfig(instance, env) ==
    IF instance = "null" THEN (IF env THEN "true" ELSE "false") ELSE instance

----------------------------------------------------------------------------
(* Errors: the statusCode the thrown object carries (0: none) and whether
   its message holds one of the words isAuthenticationError looks for. *)

GraphErrors == [statusCode : {401, 403, 500}, authWord : BOOLEAN]

(* GraphClientService wraps what the SDK throws in
   new Error(`Failed to ...: ${error.message}`): the statusCode is gone.
   cause keeps the statusCode the provider answered with, which the program
   no longer has (Undefined for an error that is no rejected Graph call);
   an ended worker invocation carries it as rejected. *)
Wrapped(error) == [statusCode |-> 0, authWord |-> error.authWord,
                   cause |-> error.statusCode]

(* new Error(...) thrown by the handlers' own code. *)
PlainError == [statusCode |-> 0, authWord |-> FALSE, cause |-> Undefined]

(* A store call that fails: a Prisma error, no statusCode, no auth word. *)
StoreError == [statusCode |-> 0, authWord |-> FALSE, cause |-> Undefined]

(* driveItemRepository.markAsDeleted is not a function. *)
TypeError == [statusCode |-> 0, authWord |-> FALSE, cause |-> Undefined]

(* JSON.parse of a malformed queue message: "Unexpected token ..." or
   "Unexpected end of JSON input". *)
SyntaxErrors == [statusCode : {0}, authWord : BOOLEAN, cause : {Undefined}]

isAuthenticationError(error) ==
    \/ error.statusCode = 401
    \/ error.statusCode = 403
    \/ error.authWord

----------------------------------------------------------------------------
(* An invocation's locals. *)

Idle == [fn |-> "none", pc |-> "idle", link |-> UndefinedStr,
         final |-> UndefinedStr, pages |-> 0, left |-> 0, item |-> NoItem,
         existing |-> NoRow, parentId |-> Undefined, rowId |-> 0,
         dbSub |-> 0, subId |-> 0, exp |-> 0, todo |-> {}, rejected |-> Undefined,
         hierarchy |-> <<>>, status |-> "none"]

Done(fn, status) == [Idle EXCEPT !.fn = fn, !.pc = "done", !.status = status]

(* p has not started and is the next to start (invocations are alike: they
   start in the order of their names), or has ended. *)
Ended(p) == loc[p].pc = "done"

CanStart(p) ==
    /\ loc[p].pc = "idle"
    /\ \A q \in Procs : (q = "p1" /\ p = "p2") => loc[q].pc # "idle"

Free(p) == loc[p].pc \in {"idle", "done"}

(* The invocation ends: startRoutine calls enableDeltaProcessing() right
   after performInitialSync returns and answers 200; processDeltaBatch
   returns. *)
Return(p, l) ==
    IF l.fn = "boot"
    THEN /\ loc' = [loc EXCEPT ![p] = Done("boot", "200")]
         /\ PROCESS_DELTA_ENABLED' = enableDeltaProcessing
    ELSE /\ loc' = [loc EXCEPT ![p] = Done("worker", "ok")]
         /\ UNCHANGED PROCESS_DELTA_ENABLED

(* Faulty catch blocks: a failure while an item is applied is swallowed and
   processDelta goes on to its cursor write. *)
Catch_SwallowsItemError(p, error) ==
    IF loc[p].pc \in {"find", "findParent", "upsert", "insert"}
    THEN /\ loc' = [loc EXCEPT ![p].pc = "updateToken"]
         /\ UNCHANGED PROCESS_DELTA_ENABLED
    ELSE IF loc[p].fn = "boot"
    THEN /\ loc' = [loc EXCEPT ![p] = Done("boot", "500")]
         /\ UNCHANGED PROCESS_DELTA_ENABLED
    ELSE /\ loc' = [loc EXCEPT ![p] = [Done("worker", "threw") EXCEPT
                                           !.rejected = error.cause]]
         /\ PROCESS_DELTA_ENABLED' =
                (IF isAuthenticationError(error)
                 THEN disableDeltaProcessing ELSE PROCESS_DELTA_ENABLED)

(* Faulty catch blocks: startRoutine enables the gate before it answers 500. *)
Catch_EnablesGate(p, error) ==
    IF loc[p].fn = "boot"
    THEN /\ loc' = [loc EXCEPT ![p] = Done("boot", "500")]
         /\ PROCESS_DELTA_ENABLED' = enableDeltaProcessing
    ELSE /\ loc' = [loc EXCEPT ![p] = [Done("worker", "threw") EXCEPT
                                           !.rejected = error.cause]]
         /\ PROCESS_DELTA_ENABLED' =
                (IF isAuthenticationError(error)
                 THEN disableDeltaProcessing ELSE PROCESS_DELTA_ENABLED)

(* Faulty catch blocks: startRoutine answers every failure with the status
   of a rejected credential. *)
Catch_Answers401(p, error) ==
    IF loc[p].fn = "boot"
    THEN /\ loc' = [loc EXCEPT ![p] = Done("boot", "401")]
         /\ UNCHANGED PROCESS_DELTA_ENABLED
    ELSE /\ loc' = [loc EXCEPT ![p] = [Done("worker", "threw") EXCEPT
                                           !.rejected = error.cause]]
         /\ PROCESS_DELTA_ENABLED' =
                (IF isAuthenticationError(error)
                 THEN disableDeltaProcessing ELSE PROCESS_DELTA_ENABLED)

(* The catch blocks: processDeltaBatch disables the gate on an
   authentication error and rethrows; startRoutine answers 500. *)
Catch(p, error) ==
    IF loc[p].fn = "boot"
    THEN /\ loc' = [loc EXCEPT ![p] = Done("boot", "500")]
         /\ UNCHANGED PROCESS_DELTA_ENABLED
    ELSE /\ loc' = [loc EXCEPT ![p] = [Done("worker", "threw") EXCEPT
                                           !.rejected = error.cause]]
         /\ PROCESS_DELTA_ENABLED' =
                (IF isAuthenticationError(error)
                 THEN disableDeltaProcessing ELSE PROCESS_DELTA_ENABLED)

(* processDelta after the item loop: write the cursor if there is a final
   delta link, return otherwise. *)
AfterItems(p, l) ==
    IF l.final # UndefinedStr /\ l.final # ""
    THEN /\ loc' = [loc EXCEPT ![p] = [l EXCEPT !.pc = "updateToken"]]
         /\ UNCHANGED PROCESS_DELTA_ENABLED
    ELSE Return(p, l)

(* The for loop of processDelta moves to the next item or ends. *)
NextItem(p, l) ==
    LET m == [l EXCEPT !.left = l.left - 1, !.item = NoItem, !.existing = NoRow,
                       !.parentId = Undefined, !.rowId = 0]
    IN  IF m.left > 0
        THEN /\ loc' = [loc EXCEPT ![p] = [m EXCEPT !.pc = "find"]]
             /\ UNCHANGED PROCESS_DELTA_ENABLED
        ELSE AfterItems(p, m)

(* processDeltaItem once existing item and parent id are known. *)
Decide(p, l) ==
    IF l.existing = NoRow
    THEN /\ loc' = [loc EXCEPT ![p] = [l EXCEPT !.pc = "upsert"]]
         /\ UNCHANGED PROCESS_DELTA_ENABLED
    ELSE IF DetectChangeType(l.existing, l.item, l.parentId) # NoChange
    THEN /\ loc' = [loc EXCEPT ![p] = [l EXCEPT !.pc = "upsert"]]
         /\ UNCHANGED PROCESS_DELTA_ENABLED
    ELSE NextItem(p, l)

----------------------------------------------------------------------------
(* DeltaProcessorService.processDelta, run by the worker and by the
   bootstrap's performInitialSync. *)

(* deltaStateRepository.findByDriveId resolves; queryDeltaComplete starts. *)
ReadCursor(p) ==
    /\ loc[p].pc = "readCursor"
    /\ \E d \in DriveIds :
         loc' = [loc EXCEPT ![p].link = DeltaTokenOf(deltaState, d),
                            ![p].pc = "query"]
    /\ UNCHANGED <<gateVars, storeVars, subVars, fed, sinkResp, replay, probe, pager>>

(* One queryDelta of queryDeltaComplete resolves with a page of k items, a
   nextLink or not, a deltaLink or not.  The page's items are drawn when the
   loop of processDelta reaches them. *)
QueryDelta(p) ==
    /\ loc[p].pc = "query"
    /\ \E k \in 0..(MaxItems - loc[p].left), nextLink \in BOOLEAN,
          deltaLink \in Cursors \cup {UndefinedStr} :
         /\ nextLink => loc[p].pages + 1 < MaxPages
         /\ fed + k <= MaxFed
         /\ fed' = fed + k
         /\ LET l == [loc[p] EXCEPT !.left = loc[p].left + k,
                                    !.pages = loc[p].pages + 1]
            IN  IF nextLink
                THEN /\ loc' = [loc EXCEPT ![p] = [l EXCEPT !.link = "next"]]
                     /\ UNCHANGED PROCESS_DELTA_ENABLED
                ELSE LET m == [l EXCEPT !.final = deltaLink, !.link = UndefinedStr,
                                        !.pages = 0]
                     IN  IF m.left > 0
                         THEN /\ loc' = [loc EXCEPT ![p] = [m EXCEPT !.pc = "find"]]
                              /\ UNCHANGED PROCESS_DELTA_ENABLED
                         ELSE AfterItems(p, m)
    /\ UNCHANGED <<configInstance, storeVars, subVars, sinkResp, replay, probe, pager>>

(* processDeltaItem: findByItemId(item.id) resolves.  A tombstone of a known
   item calls markAsDeleted, which throws; a tombstone of an unknown item
   is skipped; a live item goes on to its parent, if it names one. *)
FindItem(p) ==
    /\ loc[p].pc = "find"
    /\ \E item \in DeltaItems :
         LET existingItem == FindByItemId(driveItems, item.id)
             l == [loc[p] EXCEPT !.item = item, !.existing = existingItem]
         IN  IF item.deleted
             THEN IF existingItem # NoRow
                  THEN IF "markAsDeleted" \in DriveItemRepositoryMethods
                       THEN /\ loc' = [loc EXCEPT ![p] = [l EXCEPT !.pc = "markAsDeleted"]]
                            /\ UNCHANGED PROCESS_DELTA_ENABLED
                       ELSE Catch(p, TypeError)
                  ELSE NextItem(p, l)
             ELSE IF item.parentReference # UndefinedStr
             THEN /\ loc' = [loc EXCEPT ![p] = [l EXCEPT !.pc = "findParent"]]
                  /\ UNCHANGED PROCESS_DELTA_ENABLED
             ELSE Decide(p, l)
    /\ UNCHANGED <<configInstance, storeVars, subVars, fed, sinkResp, replay, probe, pager>>

(* findByItemId(item.parentReference.id) resolves. *)
FindParent(p) ==
    /\ loc[p].pc = "findParent"
    /\ Decide(p, [loc[p] EXCEPT !.parentId = ResolveParentId(driveItems, loc[p].item)])
    /\ UNCHANGED <<configInstance, storeVars, subVars, fed, sinkResp, replay, probe, pager>>

(* driveItemRepository.upsert resolves (the new item's, or the changed
   item's); changeEventRepository.insert is called next. *)
UpsertItem(p) ==
    /\ loc[p].pc = "upsert"
    /\ driveItems' = Upsert(driveItems, UpsertData(loc[p].item, loc[p].parentId))
    /\ loc' = [loc EXCEPT ![p].pc = "insert",
                          ![p].rowId = FindByItemId(driveItems', loc[p].item.id).id]
    /\ UNCHANGED <<gateVars, changeEvents, deltaState, subVars, fed, sinkResp, replay, probe, pager>>

(* The event processDeltaItem inserts after its upsert. *)
EventToInsert(l) ==
    IF l.existing = NoRow
    THEN CreateEvent([id |-> l.rowId], l.item, l.parentId)
    ELSE ChangeEventOf(l.existing, DetectChangeType(l.existing, l.item, l.parentId))

(* changeEventRepository.insert resolves; the loop goes on. *)
InsertEvent(p) ==
    /\ loc[p].pc = "insert"
    /\ changeEvents' = Insert(changeEvents, EventToInsert(loc[p]))
    /\ NextItem(p, loc[p])
    /\ UNCHANGED <<configInstance, driveItems, deltaState, subVars, fed, sinkResp, replay, probe, pager>>

(* deltaStateRepository.updateDeltaToken resolves; processDelta returns. *)
UpdateToken(p) ==
    /\ loc[p].pc = "updateToken"
    /\ \E d \in DriveIds :
         deltaState' = UpdateDeltaToken(deltaState, d, loc[p].final)
    /\ Return(p, loc[p])
    /\ UNCHANGED <<configInstance, driveItems, changeEvents, subVars, fed, sinkResp, replay, probe, pager>>

(* An awaited store call rejects (connection, constraint). *)
StorePcs == {"readCursor", "find", "findParent", "upsert", "insert", "updateToken",
             "subFind", "subPersist", "clearFind", "clearUpdate"}

StoreCallFails(p) ==
    /\ loc[p].pc \in StorePcs
    /\ Catch(p, StoreError)
    /\ UNCHANGED <<configInstance, storeVars, subVars, fed, sinkResp, replay, probe, pager>>

----------------------------------------------------------------------------
(* utils/tokenValidator.validateToken: the probe GET /me; every failure is
   caught and becomes isValid = false. *)

(* What client.api('/me').get() does: it resolves with the user (statusCode
   200), or it rejects with an error carrying a statusCode (0: none, as for
   a network error) and a message (absent, empty, or a text). *)
UserIds == {"user1", "user2", "user3"}

PrincipalNames == {"u1@example.com", "u2@example.com", "u3@example.com"}

ProbeStatusCodes == {0, 400, 401, 403, 404, 408, 429, 500, 502, 503, 504}

ProbeMessages == {UndefinedStr, "", "fetch failed", "Access token has expired"}

ProbeOutcomes ==
    [statusCode : {200}, id : UserIds, userPrincipalName : PrincipalNames,
     message : {UndefinedStr}]
    \cup
    [statusCode : ProbeStatusCodes, id : {UndefinedStr},
     userPrincipalName : {UndefinedStr}, message : ProbeMessages]

(* A faulty validateToken: only 401 and 403 are turned into a result, any
   other error is thrown again. *)
ValidateToken_Rethrows(outcome) ==
    IF outcome.statusCode = 200
    THEN [isValid |-> TRUE, error |-> UndefinedStr,
          userPrincipalName |-> outcome.userPrincipalName, userId |-> outcome.id,
          threw |-> FALSE]
    ELSE [isValid |-> FALSE,
          error |-> IF outcome.statusCode = 401
                    THEN "Token is invalid or expired (401 Unauthorized)"
                    ELSE "Token does not have required permissions (403 Forbidden)",
          userPrincipalName |-> UndefinedStr, userId |-> UndefinedStr,
          threw |-> outcome.statusCode \notin {401, 403}]

(* validateToken: the TokenValidationResult, and whether the call threw. *)
ValidateToken(outcome) ==
    IF outcome.statusCode = 200
    THEN [isValid |-> TRUE, error |-> UndefinedStr,
          userPrincipalName |-> outcome.userPrincipalName, userId |-> outcome.id,
          threw |-> FALSE]
    ELSE [isValid |-> FALSE,
          error |-> IF outcome.statusCode = 401
                    THEN "Token is invalid or expired (401 Unauthorized)"
                    ELSE IF outcome.statusCode = 403
                    THEN "Token does not have required permissions (403 Forbidden)"
                    ELSE IF outcome.message # UndefinedStr /\ outcome.message # ""
                    THEN outcome.message
                    ELSE "Unknown error",
          userPrincipalName |-> UndefinedStr, userId |-> UndefinedStr,
          threw |-> FALSE]

NoResult == [isValid |-> FALSE, error |-> UndefinedStr,
             userPrincipalName |-> UndefinedStr, userId |-> UndefinedStr,
             threw |-> FALSE]

NoProbe == [outcome |-> [statusCode |-> 0, id |-> UndefinedStr,
                         userPrincipalName |-> UndefinedStr, message |-> UndefinedStr],
            returned |-> FALSE, result |-> NoResult]

(* validateToken called alone: the probe settles and the call returns. *)
ProbeSettles ==
    /\ ~probe.returned
    /\ probe' = [probe EXCEPT !.returned = TRUE,
                              !.result = ValidateToken(probe.outcome)]
    /\ UNCHANGED <<gateVars, storeVars, subVars, procVars, sinkResp, replay, pager>>

----------------------------------------------------------------------------
(* functions/processDeltaBatch.ts: the queue worker. *)

(* The handler starts: the gate check, getConfig, and validateToken called. *)
WorkerStart(p) ==
    /\ CanStart(p)
    /\ IF ~isDeltaProcessingEnabled
       THEN /\ loc' = [loc EXCEPT ![p] = Done("worker", "skipped")]
            /\ UNCHANGED configInstance
       ELSE /\ loc' = [loc EXCEPT ![p] = [Idle EXCEPT !.fn = "worker", !.pc = "validate"]]
            /\ configInstance' = GetConfig(configInstance, PROCESS_DELTA_ENABLED)
    /\ UNCHANGED <<PROCESS_DELTA_ENABLED, storeVars, subVars, fed, sinkResp, replay, probe, pager>>

(* validateToken resolves.  Invalid: disable the gate and return.  Valid:
   parse the queue message (JSON.parse may throw) and ask for the drive. *)
WorkerValidated(p) ==
    /\ loc[p].fn = "worker"
    /\ loc[p].pc = "validate"
    /\ \E outcome \in ProbeOutcomes :
         IF ~ValidateToken(outcome).isValid
         THEN /\ PROCESS_DELTA_ENABLED' = disableDeltaProcessing
              /\ loc' = [loc EXCEPT ![p] = [Done("worker", "invalid") EXCEPT
                                                !.rejected = outcome.statusCode]]
         ELSE \/ /\ loc' = [loc EXCEPT ![p].pc = "drive"]
                 /\ UNCHANGED PROCESS_DELTA_ENABLED
              \/ \E error \in SyntaxErrors : Catch(p, error)
    /\ UNCHANGED <<configInstance, storeVars, subVars, fed, sinkResp, replay, probe, pager>>

(* getUserDriveId resolves for the worker; processDelta is called. *)
WorkerGotDrive(p) ==
    /\ loc[p].fn = "worker"
    /\ loc[p].pc = "drive"
    /\ loc' = [loc EXCEPT ![p].pc = "readCursor"]
    /\ UNCHANGED <<gateVars, storeVars, subVars, fed, sinkResp, replay, probe, pager>>

(* An awaited Graph call rejects (getUserDriveId, queryDelta, getSubscription
   other than 404, updateSubscription, createSubscription): the SDK's error,
   wrapped. *)
GraphPcs == {"drive", "query", "subGet", "subRenew", "subCreate"}

GraphCallFails(p) ==
    /\ loc[p].pc \in GraphPcs
    /\ \E error \in GraphErrors : Catch(p, Wrapped(error))
    /\ UNCHANGED <<configInstance, storeVars, subVars, fed, sinkResp, replay, probe, pager>>

----------------------------------------------------------------------------
(* SubscriptionService and WebhookSubscriptionRepository.  One resource,
   /drives/{driveId}/root.  A provider subscription is [id, expiration]; a
   table row is [id, subscriptionId, expiration]; ids are handed out in
   order, so the row created last has the largest id. *)

T_SUB_HOURS == 70
RENEW_THRESHOLD_HOURS == 24
TickHours == 24

calculateExpirationDateTime(t) == t + T_SUB_HOURS

(* findByResource: the rows of the resource, createdAt descending; [0]. *)
FirstByResource(rows) == CHOOSE r \in rows : \A q \in rows : q.id <= r.id

(* getSubscription: the provider's subscription, or null on 404. *)
NoSub == [id |-> 0, expiration |-> 0]

(* A faulty getSubscription: every failure of the GET is taken for a 404. *)
GetSubscription_Always404(subs, subscriptionId) == NoSub

GetSubscription(subs, subscriptionId) ==
    IF \E g \in subs : g.id = subscriptionId
    THEN CHOOSE g \in subs : g.id = subscriptionId
    ELSE NoSub

(* The where-argument of a Prisma call, with its JavaScript type. *)
NumberArg(v) == [type |-> "number", value |-> v]
StringArg(v) == [type |-> "string", value |-> v]

(* updateExpiration(subscriptionId: string, expiration): update where
   { subscriptionId }.  Prisma validates the argument against the String
   column and rejects a number; it rejects when no row matches. *)
UpdateExpiration(rows, where, expiration) ==
    IF where.type # "string" \/ ~\E r \in rows : r.subscriptionId = where.value
    THEN [ok |-> FALSE, rows |-> rows]
    ELSE [ok |-> TRUE,
          rows |-> { IF r.subscriptionId = where.value
                     THEN [r EXCEPT !.expiration = expiration] ELSE r : r \in rows }]

(* A faulty upsert: an update where the code has an upsert, so a new
   subscription gets no row. *)
UpsertSubscription_UpdateOnly(rows, seq, data) ==
    { IF r.subscriptionId = data.subscriptionId
      THEN [r EXCEPT !.expiration = data.expiration] ELSE r : r \in rows }

(* upsert: where { subscriptionId }. *)
UpsertSubscription(rows, seq, data) ==
    IF \E r \in rows : r.subscriptionId = data.subscriptionId
    THEN { IF r.subscriptionId = data.subscriptionId
           THEN [r EXCEPT !.expiration = data.expiration] ELSE r : r \in rows }
    ELSE rows \cup { [id |-> seq + 1, subscriptionId |-> data.subscriptionId,
                      expiration |-> data.expiration] }

(* ensureSubscription returned: performInitialSync starts with
   clearDeltaToken's findUnique. *)
ToInitialSync(l) == [l EXCEPT !.pc = "clearFind", !.dbSub = 0, !.subId = 0, !.exp = 0]

(* findByResource resolves. *)
SubFind(p) ==
    /\ loc[p].pc = "subFind"
    /\ IF webhookSubscriptions # {}
       THEN LET dbSubscription == FirstByResource(webhookSubscriptions) IN
            loc' = [loc EXCEPT ![p].pc = "subGet",
                               ![p].dbSub = dbSubscription.id,
                               ![p].subId = dbSubscription.subscriptionId]
       ELSE loc' = [loc EXCEPT ![p].pc = "subCreate"]
    /\ UNCHANGED <<gateVars, storeVars, subVars, fed, sinkResp, replay, probe, pager>>

(* getSubscription resolves: still valid, to renew, or gone (404). *)
SubGet(p) ==
    /\ loc[p].pc = "subGet"
    /\ LET graphSubscription == GetSubscription(graphSubscriptions, loc[p].subId)
           hoursUntilExpiration == graphSubscription.expiration - now
       IN  IF graphSubscription # NoSub
           THEN IF hoursUntilExpiration > RENEW_THRESHOLD_HOURS
                THEN loc' = [loc EXCEPT ![p] = ToInitialSync(loc[p])]
                ELSE loc' = [loc EXCEPT ![p].pc = "subRenew"]
           ELSE loc' = [loc EXCEPT ![p].pc = "subDelete"]
    /\ UNCHANGED <<gateVars, storeVars, subVars, fed, sinkResp, replay, probe, pager>>

(* updateSubscription (PATCH) resolves; the table's updateExpiration is
   called with dbSubscription.id. *)
SubRenew(p) ==
    /\ loc[p].pc = "subRenew"
    /\ \E g \in graphSubscriptions :
         /\ g.id = loc[p].subId
         /\ graphSubscriptions' =
              (graphSubscriptions \ {g}) \cup
              { [g EXCEPT !.expiration = calculateExpirationDateTime(now)] }
         /\ loc' = [loc EXCEPT ![p].pc = "subUpdate",
                               ![p].exp = calculateExpirationDateTime(now)]
    /\ UNCHANGED <<gateVars, storeVars, webhookSubscriptions, subSeq, now,
                   fed, sinkResp, replay, probe, pager>>

(* updateExpiration(dbSubscription.id, ...) settles. *)
SubUpdate(p) ==
    /\ loc[p].pc = "subUpdate"
    /\ LET res == UpdateExpiration(webhookSubscriptions, NumberArg(loc[p].dbSub),
                                   loc[p].exp)
       IN  IF res.ok
           THEN /\ webhookSubscriptions' = res.rows
                /\ loc' = [loc EXCEPT ![p] = ToInitialSync(loc[p])]
                /\ UNCHANGED PROCESS_DELTA_ENABLED
           ELSE /\ Catch(p, StoreError)
                /\ UNCHANGED webhookSubscriptions
    /\ UNCHANGED <<configInstance, storeVars, graphSubscriptions, subSeq, now,
                   fed, sinkResp, replay, probe, pager>>

(* delete(dbSubscription.id) settles: the row is removed, or it was gone. *)
SubDelete(p) ==
    /\ loc[p].pc = "subDelete"
    /\ IF \E r \in webhookSubscriptions : r.id = loc[p].dbSub
       THEN /\ webhookSubscriptions' =
                 { r \in webhookSubscriptions : r.id # loc[p].dbSub }
            /\ loc' = [loc EXCEPT ![p].pc = "subCreate"]
            /\ UNCHANGED PROCESS_DELTA_ENABLED
       ELSE /\ Catch(p, StoreError)
            /\ UNCHANGED webhookSubscriptions
    /\ UNCHANGED <<configInstance, storeVars, graphSubscriptions, subSeq, now,
                   fed, sinkResp, replay, probe, pager>>

(* createSubscription (POST /subscriptions) resolves. *)
SubCreate(p) ==
    /\ loc[p].pc = "subCreate"
    /\ graphSubscriptions' = graphSubscriptions \cup
           { [id |-> subSeq.graph + 1, expiration |-> calculateExpirationDateTime(now)] }
    /\ subSeq' = [subSeq EXCEPT !.graph = subSeq.graph + 1]
    /\ loc' = [loc EXCEPT ![p].pc = "subPersist", ![p].subId = subSeq.graph + 1,
                          ![p].exp = calculateExpirationDateTime(now)]
    /\ UNCHANGED <<gateVars, storeVars, webhookSubscriptions, now,
                   fed, sinkResp, replay, probe, pager>>

(* webhookSubscriptionRepository.upsert resolves; ensureSubscription returns. *)
SubPersist(p) ==
    /\ loc[p].pc = "subPersist"
    /\ webhookSubscriptions' =
           UpsertSubscription(webhookSubscriptions, subSeq.db,
                              [subscriptionId |-> loc[p].subId, expiration |-> loc[p].exp])
    /\ subSeq' = [subSeq EXCEPT !.db = subSeq.db + 1]
    /\ loc' = [loc EXCEPT ![p] = ToInitialSync(loc[p])]
    /\ UNCHANGED <<gateVars, storeVars, graphSubscriptions, now,
                   fed, sinkResp, replay, probe, pager>>

(* cleanupExpiredSubscriptions: the for loop over allSubscriptions, of which
   todo are the records still to come (createdAt descending).  Records that
   have not expired are passed over; for the next expired one getSubscription
   is called; with none left the function returns. *)
CleanupLoop(l, todo) ==
    LET expired == { r \in todo : r.expiration < now } IN
    IF expired = {}
    THEN Done("cleanup", "ok")
    ELSE LET dbSubscription == FirstByResource(expired) IN
         [l EXCEPT !.pc = "cleanGet", !.dbSub = dbSubscription.id,
                   !.subId = dbSubscription.subscriptionId,
                   !.todo = { r \in todo : r.id < dbSubscription.id }]

(* findAll resolves. *)
CleanupFind(p) ==
    /\ loc[p].pc = "cleanFind"
    /\ loc' = [loc EXCEPT ![p] = CleanupLoop(loc[p], webhookSubscriptions)]
    /\ UNCHANGED <<gateVars, storeVars, subVars, fed, sinkResp, replay, probe, pager>>

(* getSubscription settles: the subscription (the record stays), null on 404
   (delete is called), or a rejection, which ends the cleanup. *)
CleanupGet(p) ==
    /\ loc[p].pc = "cleanGet"
    /\ \/ IF GetSubscription(graphSubscriptions, loc[p].subId) # NoSub
          THEN loc' = [loc EXCEPT ![p] = CleanupLoop(loc[p], loc[p].todo)]
          ELSE loc' = [loc EXCEPT ![p].pc = "cleanDelete"]
       \/ loc' = [loc EXCEPT ![p] = Done("cleanup", "threw")]
    /\ UNCHANGED <<gateVars, storeVars, subVars, fed, sinkResp, replay, probe, pager>>

(* delete(dbSubscription.id) settles: the record is removed, or it was gone
   and the cleanup ends with Prisma's error. *)
CleanupDelete(p) ==
    /\ loc[p].pc = "cleanDelete"
    /\ IF \E r \in webhookSubscriptions : r.id = loc[p].dbSub
       THEN /\ webhookSubscriptions' =
                 { r \in webhookSubscriptions : r.id # loc[p].dbSub }
            /\ loc' = [loc EXCEPT ![p] = CleanupLoop(loc[p], loc[p].todo)]
       ELSE /\ loc' = [loc EXCEPT ![p] = Done("cleanup", "threw")]
            /\ UNCHANGED webhookSubscriptions
    /\ UNCHANGED <<gateVars, storeVars, graphSubscriptions, subSeq, now,
                   fed, sinkResp, replay, probe, pager>>

(* The provider drops a subscription that has expired. *)
GraphExpires ==
    /\ \E g \in graphSubscriptions :
         /\ g.expiration <= now
         /\ graphSubscriptions' = graphSubscriptions \ {g}
    /\ UNCHANGED <<gateVars, storeVars, webhookSubscriptions, subSeq, now,
                   procVars, sinkResp, replay, probe, pager>>

(* Time passes, between invocations (a step of the clock is far longer than
   the host lets an invocation run) and once there is a subscription to age
   (the clock's origin is arbitrary). *)
Tick ==
    /\ now < MaxNow
    /\ \A p \in Procs : Free(p)
    /\ graphSubscriptions # {}
    /\ now' = now + TickHours
    /\ UNCHANGED <<gateVars, storeVars, webhookSubscriptions, graphSubscriptions,
                   subSeq, procVars, sinkResp, replay, probe, pager>>

----------------------------------------------------------------------------
(* functions/startRoutine.ts: the bootstrap. *)

(* The handler starts: getConfig, and validateToken called. *)
BootStart(p) ==
    /\ CanStart(p)
    /\ configInstance' = GetConfig(configInstance, PROCESS_DELTA_ENABLED)
    /\ loc' = [loc EXCEPT ![p] = [Idle EXCEPT !.fn = "boot", !.pc = "validate"]]
    /\ UNCHANGED <<PROCESS_DELTA_ENABLED, storeVars, subVars, fed, sinkResp, replay, probe, pager>>

(* validateToken resolves: 401 when invalid, else getUserDriveId is called. *)
BootValidated(p) ==
    /\ loc[p].fn = "boot"
    /\ loc[p].pc = "validate"
    /\ \E outcome \in ProbeOutcomes :
         IF ~ValidateToken(outcome).isValid
         THEN loc' = [loc EXCEPT ![p] = Done("boot", "401")]
         ELSE loc' = [loc EXCEPT ![p].pc = "drive"]
    /\ UNCHANGED <<gateVars, storeVars, subVars, fed, sinkResp, replay, probe, pager>>

(* getUserDriveId resolves: getNotificationUrl (throws without a host header
   and WEBHOOK_NOTIFICATION_URL), then ensureSubscription's findByResource. *)
BootGotDrive(p) ==
    /\ loc[p].fn = "boot"
    /\ loc[p].pc = "drive"
    /\ \E hasUrl \in BOOLEAN :
         IF hasUrl
         THEN /\ loc' = [loc EXCEPT ![p].pc = "subFind"]
              /\ UNCHANGED PROCESS_DELTA_ENABLED
         ELSE Catch(p, PlainError)
    /\ UNCHANGED <<configInstance, storeVars, subVars, fed, sinkResp, replay, probe, pager>>

(* performInitialSync: clearDeltaToken's findUnique resolves. *)
ClearFind(p) ==
    /\ loc[p].pc = "clearFind"
    /\ \E d \in DriveIds :
         IF deltaState[d] # NoState
         THEN loc' = [loc EXCEPT ![p].pc = "clearUpdate"]
         ELSE loc' = [loc EXCEPT ![p].pc = "readCursor"]
    /\ UNCHANGED <<gateVars, storeVars, subVars, fed, sinkResp, replay, probe, pager>>

(* clearDeltaToken's update resolves; processDelta is called. *)
ClearUpdate(p) ==
    /\ loc[p].pc = "clearUpdate"
    /\ \E d \in DriveIds : deltaState' = ClearDeltaToken(deltaState, d)
    /\ loc' = [loc EXCEPT ![p].pc = "readCursor"]
    /\ UNCHANGED <<gateVars, driveItems, changeEvents, subVars, fed, sinkResp, replay, probe, pager>>

----------------------------------------------------------------------------
(* DriveItemRepository.getItemHierarchy, called while passes change the
   rows.  existing is currentItem (the row as it was read); hierarchy holds
   the ids of the rows collected, of which the model keeps the first
   MaxHierarchy. *)

MaxHierarchy == 3

Unshift(hierarchy, row) ==
    LET h == <<row.id>> \o hierarchy IN
    IF Len(h) > MaxHierarchy THEN SubSeq(h, 1, MaxHierarchy) ELSE h

(* The while loop's test: the parent is read next, or the list returned. *)
HierarchyLoop(l) ==
    IF l.existing.parentId # Null
    THEN [l EXCEPT !.pc = "hierParent"]
    ELSE [Done("hierarchy", "ok") EXCEPT !.hierarchy = l.hierarchy]

(* getItemHierarchy(itemId) is called: findByItemId is awaited. *)
HierarchyStart(p) ==
    /\ CanStart(p)
    /\ \E itemId \in ExtIds :
         loc' = [loc EXCEPT ![p] = [Idle EXCEPT !.fn = "hierarchy", !.pc = "hierFind",
                                                !.item = [NoItem EXCEPT !.id = itemId]]]
    /\ UNCHANGED <<gateVars, storeVars, subVars, fed, sinkResp, replay, probe, pager>>

(* findByItemId settles: no row, [] is returned; else the loop starts with
   the row. *)
HierarchyFind(p) ==
    /\ loc[p].pc = "hierFind"
    /\ LET item == FindByItemId(driveItems, loc[p].item.id) IN
       \/ loc' = [loc EXCEPT ![p] =
                     IF item = NoRow THEN Done("hierarchy", "ok")
                     ELSE HierarchyLoop([loc[p] EXCEPT !.existing = item,
                                                       !.hierarchy = <<item.id>>])]
       \/ loc' = [loc EXCEPT ![p] = Done("hierarchy", "threw")]
    /\ UNCHANGED <<gateVars, storeVars, subVars, fed, sinkResp, replay, probe, pager>>

(* findById(currentItem.parentId) settles: no row, the loop breaks; else the
   parent is put in front and becomes currentItem. *)
HierarchyParent(p) ==
    /\ loc[p].pc = "hierParent"
    /\ LET parent == FindById(driveItems, loc[p].existing.parentId) IN
       \/ loc' = [loc EXCEPT ![p] =
                     IF parent = NoRow
                     THEN [Done("hierarchy", "ok") EXCEPT !.hierarchy = loc[p].hierarchy]
                     ELSE HierarchyLoop([loc[p] EXCEPT
                                           !.existing = parent,
                                           !.hierarchy = Unshift(loc[p].hierarchy, parent)])]
       \/ loc' = [loc EXCEPT ![p] = Done("hierarchy", "threw")]
    /\ UNCHANGED <<gateVars, storeVars, subVars, fed, sinkResp, replay, probe, pager>>

----------------------------------------------------------------------------
(* processDeltaItem as one step, for the passes that run alone: the store
   after the item, and whether the call threw. *)

ProcessDeltaItem(rows, events, item) ==
    LET existingItem == FindByItemId(rows, item.id)
        parentId == ResolveParentId(rows, item)
        same == [rows |-> rows, events |-> events, threw |-> FALSE]
    IN  IF item.deleted
        THEN IF existingItem # NoRow
             THEN IF "markAsDeleted" \in DriveItemRepositoryMethods
                  THEN [rows |-> MarkDeleted(rows, existingItem.itemId),
                        events |-> Insert(events, DeleteEvent(existingItem)),
                        threw |-> FALSE]
                  ELSE [same EXCEPT !.threw = TRUE]
             ELSE same
        ELSE IF existingItem = NoRow
        THEN LET created == Upsert(rows, UpsertData(item, parentId))
                 newItem == FindByItemId(created, item.id)
             IN  [rows |-> created,
                  events |-> Insert(events, CreateEvent(newItem, item, parentId)),
                  threw |-> FALSE]
        ELSE LET change == DetectChangeType(existingItem, item, parentId) IN
             IF change # NoChange
             THEN [rows |-> Upsert(rows, UpsertData(item, parentId)),
                   events |-> Insert(events, ChangeEventOf(existingItem, change)),
                   threw |-> FALSE]
             ELSE same

(* Two passes of processDelta over the same page, one after the other and
   with nothing else running: replay holds the page, the pass (1, 2; 3 when
   both are over), the index of the next item, and what the first pass left
   (number of events, item rows, whether it threw). *)
MaxPageLen == 3

Pages == UNION { [1..n -> DeltaItems] : n \in 1..MaxPageLen }

NoReplay == [page |-> <<>>, pass |-> 0, at |-> 0, before |-> 0, rows |-> {},
             failed |-> FALSE]

(* The for loop of processDelta applies the next item of the page; a throw
   ends the pass. *)
ReplayItem ==
    /\ replay.pass \in {1, 2}
    /\ LET r == ProcessDeltaItem(driveItems, changeEvents, replay.page[replay.at])
           last == r.threw \/ replay.at = Len(replay.page)
       IN  /\ driveItems' = r.rows
           /\ changeEvents' = r.events
           /\ replay' =
                IF ~last THEN [replay EXCEPT !.at = replay.at + 1]
                ELSE IF replay.pass = 1
                THEN [replay EXCEPT !.pass = 2, !.at = 1,
                                    !.before = Len(r.events), !.rows = r.rows,
                                    !.failed = r.threw]
                ELSE [replay EXCEPT !.pass = 3, !.at = 1]
    /\ UNCHANGED <<gateVars, deltaState, subVars, procVars, sinkResp, probe, pager>>

----------------------------------------------------------------------------
(* functions/onOneDriveWebhookNotification: the notification sink.  The
   handler has one await (request.json()) and touches no shared state but
   the configuration cache: it is one step. *)

WEBHOOK_CLIENT_STATE == "secret"

MaxEntries == 2

SubscriptionIds == {"s1", "s2"}

Notifications ==
    [subscriptionId : SubscriptionIds, clientState : {"secret", "other", UndefinedStr}]

Payloads == UNION { [1..n -> Notifications] : n \in 0..MaxEntries }

(* The sink's last request (validationToken of the query, whether the body
   fails to parse, the parsed body.value) and what the handler did with it:
   the response, whether it read the body, the entries that reached the
   point where the delta processing would be queued, and the queue messages
   it sent. *)
NoResp == [validationToken |-> UndefinedStr, malformed |-> FALSE, payload |-> <<>>,
           status |-> "none", contentType |-> "none", body |-> "none",
           bodyRead |-> FALSE, accepted |-> <<>>, enqueued |-> <<>>]

ValidationTokens == {"t1", "t2"}

(* A faulty validateClientState: any client state that is present passes. *)
ValidateClientState_Present(clientState) == clientState # UndefinedStr

(* SubscriptionService.validateClientState. *)
ValidateClientState(clientState) == clientState = WEBHOOK_CLIENT_STATE

(* The entries of the payload that reach the point where the handler would
   queue the delta processing, in order: client state valid, and
   config.processDeltaEnabled of the cached configuration. *)
RECURSIVE Queued(_, _, _)
Queued(payload, config, i) ==
    IF i > Len(payload) THEN <<>>
    ELSE IF ~ValidateClientState(payload[i].clientState) THEN Queued(payload, config, i + 1)
    ELSE IF config # "true" THEN Queued(payload, config, i + 1)
    ELSE <<i>> \o Queued(payload, config, i + 1)

(* A faulty handler: the body is parsed before the validationToken is
   looked at. *)
OnOneDriveWebhookNotification_ParsesFirst(request, instance, env) ==
    IF request.malformed
    THEN [instance |-> instance,
          resp |-> [request EXCEPT !.status = "500", !.contentType = "application/json",
                                   !.body = "error", !.bodyRead = TRUE]]
    ELSE IF request.validationToken # UndefinedStr /\ request.validationToken # ""
    THEN [instance |-> instance,
          resp |-> [request EXCEPT !.status = "200", !.contentType = "text/plain",
                                   !.body = request.validationToken, !.bodyRead = TRUE]]
    ELSE [instance |-> GetConfig(instance, env),
          resp |-> [request EXCEPT !.status = "200", !.contentType = "application/json",
                                   !.body = "received", !.bodyRead = TRUE,
                                   !.accepted = Queued(request.payload,
                                                       GetConfig(instance, env), 1)]]

(* onOneDriveWebhookNotification: the response to a request, and the
   configuration cache afterwards.  A validationToken is echoed as
   text/plain with 200 before anything else; request.json() rejecting is
   answered 500 by the catch; else getConfig, the loop over body.value, and
   200.  No queue message is sent: where the entry would be queued the
   handler writes a log line. *)
OnOneDriveWebhookNotification(request, instance, env) ==
    IF request.validationToken # UndefinedStr /\ request.validationToken # ""
    THEN [instance |-> instance,
          resp |-> [request EXCEPT !.status = "200", !.contentType = "text/plain",
                                   !.body = request.validationToken]]
    ELSE IF request.malformed
    THEN [instance |-> instance,
          resp |-> [request EXCEPT !.status = "500", !.contentType = "application/json",
                                   !.body = "error", !.bodyRead = TRUE]]
    ELSE [instance |-> GetConfig(instance, env),
          resp |-> [request EXCEPT !.status = "200", !.contentType = "application/json",
                                   !.body = "received", !.bodyRead = TRUE,
                                   !.accepted = Queued(request.payload,
                                                       GetConfig(instance, env), 1)]]

(* The handler runs on a request. *)
Sink(request) ==
    LET r == OnOneDriveWebhookNotification(request, configInstance, PROCESS_DELTA_ENABLED)
    IN  /\ sinkResp' = r.resp
        /\ configInstance' = r.instance
        /\ UNCHANGED <<PROCESS_DELTA_ENABLED, storeVars, subVars, procVars, replay, probe, pager>>

(* A validation request of the provider: validationToken in the query, any
   body. *)
SinkHandshake ==
    \E validationToken \in ValidationTokens, malformed \in BOOLEAN :
        Sink([NoResp EXCEPT !.validationToken = validationToken,
                            !.malformed = malformed])

(* A request without validationToken (or an empty one) whose body does not
   parse. *)
SinkMalformed ==
    \E validationToken \in {UndefinedStr, ""} :
        Sink([NoResp EXCEPT !.validationToken = validationToken, !.malformed = TRUE])

(* A change notification. *)
SinkNotification ==
    \E validationToken \in {UndefinedStr, ""}, payload \in Payloads :
        Sink([NoResp EXCEPT !.validationToken = validationToken, !.payload = payload])

----------------------------------------------------------------------------
(* GraphClientService.queryDelta and queryDeltaComplete, called alone
   against a provider that holds a chain of pages. *)

MaxChain == 3            \* pages the provider holds
MaxFetches == 4          \* calls of queryDelta in one queryDeltaComplete

(* The URL of page i, for the pages after the first. *)
PageLinks == <<"L1", "L2", "L3", "L4", "L5">>

PageItems == {<<>>, <<"a">>, <<"b">>}

(* JavaScript truthiness of an optional string. *)
Truthy(s) == s # UndefinedStr /\ s # ""

(* The provider's pages: response.value, '@odata.nextLink' (absent, the URL
   of the following page, or the URL of the first page again: a chain that
   never ends) and '@odata.deltaLink'. *)
Chains ==
    UNION { { c \in [1..n -> [items : PageItems,
                              nextLink : {UndefinedStr} \cup { PageLinks[i] : i \in 1..n },
                              deltaLink : Cursors \cup {UndefinedStr}]] :
                \A i \in 1..n :
                    c[i].nextLink \in {UndefinedStr, PageLinks[1]}
                                      \cup (IF i < n THEN {PageLinks[i + 1]} ELSE {}) } :
            n \in 1..MaxChain }

(* queryDelta: GET deltaLink || '/me/drive/root/delta'.  The default URL and
   a stored delta link are answered with the first page, the URL of a page
   with that page. *)
DeltaUrl(deltaLink) == IF Truthy(deltaLink) THEN deltaLink ELSE "/me/drive/root/delta"

QueryDeltaPage(chain, deltaLink) ==
    LET url == DeltaUrl(deltaLink) IN
    IF \E i \in 1..Len(chain) : PageLinks[i] = url
    THEN chain[CHOOSE i \in 1..Len(chain) : PageLinks[i] = url]
    ELSE chain[1]

NoPager == [chain |-> <<>>, deltaLink |-> UndefinedStr, currentLink |-> UndefinedStr,
            allItems |-> <<>>, finalDeltaLink |-> UndefinedStr, fetched |-> 0,
            returned |-> FALSE, threw |-> FALSE]

(* A faulty loop body: a page with a deltaLink ends the loop, also when it
   has a nextLink. *)
QueryDeltaCompleteLoop_DeltaLinkFirst(st, result) ==
    LET m == [st EXCEPT !.allItems = st.allItems \o result.items,
                        !.fetched = st.fetched + 1]
    IN  IF Truthy(result.deltaLink)
        THEN [m EXCEPT !.finalDeltaLink = result.deltaLink, !.returned = TRUE]
        ELSE IF Truthy(result.nextLink)
        THEN [m EXCEPT !.currentLink = result.nextLink]
        ELSE [m EXCEPT !.returned = TRUE]

(* One turn of the while (true) of queryDeltaComplete, once queryDelta has
   resolved with result. *)
QueryDeltaCompleteLoop(st, result) ==
    LET m == [st EXCEPT !.allItems = st.allItems \o result.items,
                        !.fetched = st.fetched + 1]
    IN  IF Truthy(result.nextLink)
        THEN [m EXCEPT !.currentLink = result.nextLink]
        ELSE IF Truthy(result.deltaLink)
        THEN [m EXCEPT !.finalDeltaLink = result.deltaLink, !.returned = TRUE]
        ELSE [m EXCEPT !.returned = TRUE]

(* queryDelta resolves and the loop takes its turn. *)
QueryDeltaResolves ==
    /\ pager.chain # <<>>
    /\ ~pager.returned
    /\ pager.fetched < MaxFetches
    /\ pager' = QueryDeltaCompleteLoop(pager, QueryDeltaPage(pager.chain, pager.currentLink))
    /\ UNCHANGED <<gateVars, storeVars, subVars, procVars, sinkResp, replay, probe>>

(* queryDelta rejects: queryDeltaComplete rejects with it. *)
QueryDeltaRejects ==
    /\ pager.chain # <<>>
    /\ ~pager.returned
    /\ pager.fetched < MaxFetches
    /\ pager' = [pager EXCEPT !.returned = TRUE, !.threw = TRUE]
    /\ UNCHANGED <<gateVars, storeVars, subVars, procVars, sinkResp, replay, probe>>

----------------------------------------------------------------------------
(* The system: invocations of the worker and of the bootstrap, interleaved
   at their awaits, the provider and the clock. *)

Init ==
    /\ PROCESS_DELTA_ENABLED \in BOOLEAN
    /\ configInstance = "null"
    /\ driveItems = {}
    /\ changeEvents = <<>>
    /\ deltaState = [d \in DriveIds |-> NoState]
    /\ webhookSubscriptions = {}
    /\ graphSubscriptions = {}
    /\ subSeq = [db |-> 0, graph |-> 0]
    /\ now = 0
    /\ loc = [p \in Procs |-> Idle]
    /\ fed = 0
    /\ sinkResp = NoResp
    /\ replay = NoReplay
    /\ probe = NoProbe
    /\ pager = NoPager

Next ==
    \/ \E p \in Procs : WorkerStart(p)
    \/ \E p \in Procs : WorkerValidated(p)
    \/ \E p \in Procs : WorkerGotDrive(p)
    \/ \E p \in Procs : BootStart(p)
    \/ \E p \in Procs : BootValidated(p)
    \/ \E p \in Procs : BootGotDrive(p)
    \/ \E p \in Procs : SubFind(p)
    \/ \E p \in Procs : SubGet(p)
    \/ \E p \in Procs : SubRenew(p)
    \/ \E p \in Procs : SubUpdate(p)
    \/ \E p \in Procs : SubDelete(p)
    \/ \E p \in Procs : SubCreate(p)
    \/ \E p \in Procs : SubPersist(p)
    \/ \E p \in Procs : ClearFind(p)
    \/ \E p \in Procs : ClearUpdate(p)
    \/ \E p \in Procs : ReadCursor(p)
    \/ \E p \in Procs : QueryDelta(p)
    \/ \E p \in Procs : FindItem(p)
    \/ \E p \in Procs : FindParent(p)
    \/ \E p \in Procs : UpsertItem(p)
    \/ \E p \in Procs : InsertEvent(p)
    \/ \E p \in Procs : UpdateToken(p)
    \/ \E p \in Procs : StoreCallFails(p)
    \/ \E p \in Procs : GraphCallFails(p)
    \/ GraphExpires
    \/ Tick

Spec == Init /\ [][Next]_vars

(* A page applied twice by passes that run alone, on an empty store. *)
InitReplay ==
    /\ PROCESS_DELTA_ENABLED = TRUE
    /\ configInstance = "null"
    /\ driveItems = {}
    /\ changeEvents = <<>>
    /\ deltaState = [d \in DriveIds |-> NoState]
    /\ webhookSubscriptions = {}
    /\ graphSubscriptions = {}
    /\ subSeq = [db |-> 0, graph |-> 0]
    /\ now = 0
    /\ loc = [p \in Procs |-> Idle]
    /\ fed = 0
    /\ sinkResp = NoResp
    /\ replay \in { [NoReplay EXCEPT !.page = page, !.pass = 1, !.at = 1] :
                      page \in Pages }
    /\ probe = NoProbe
    /\ pager = NoPager

NextReplay == ReplayItem

SpecReplay == InitReplay /\ [][NextReplay]_vars

(* The sink, in each state of the gate and of the configuration cache that
   the worker and the bootstrap can leave. *)
InitSink ==
    /\ PROCESS_DELTA_ENABLED \in BOOLEAN
    /\ configInstance \in {"null", "true", "false"}
    /\ driveItems = {}
    /\ changeEvents = <<>>
    /\ deltaState = [d \in DriveIds |-> NoState]
    /\ webhookSubscriptions = {}
    /\ graphSubscriptions = {}
    /\ subSeq = [db |-> 0, graph |-> 0]
    /\ now = 0
    /\ loc = [p \in Procs |-> Idle]
    /\ fed = 0
    /\ sinkResp = NoResp
    /\ replay = NoReplay
    /\ probe = NoProbe
    /\ pager = NoPager

NextSink ==
    \/ SinkHandshake
    \/ SinkMalformed
    \/ SinkNotification

SpecSink == InitSink /\ [][NextSink]_vars

(* One item applied by a pass running alone to a store that is already
   populated: item a, or items a and b (b at the root or under a), each
   deleted or not, with the ids and paths the repository gives. *)
StoredRows(id, itemId, parents) ==
    { [id |-> id, itemId |-> itemId, name |-> n, parentId |-> parent,
       isDeleted |-> d, path |-> <<n>>] :
        n \in Names, parent \in parents, d \in BOOLEAN }

Stores ==
    {{}} \cup { {ra} : ra \in StoredRows(1, "a", {Null}) }
         \cup { {ra, rb} : ra \in StoredRows(1, "a", {Null}),
                           rb \in StoredRows(2, "b", {Null, 1}) }

InitItem ==
    /\ PROCESS_DELTA_ENABLED = TRUE
    /\ configInstance = "null"
    /\ driveItems \in Stores
    /\ changeEvents = <<>>
    /\ deltaState = [d \in DriveIds |-> NoState]
    /\ webhookSubscriptions = {}
    /\ graphSubscriptions = {}
    /\ subSeq = [db |-> 0, graph |-> 0]
    /\ now = 0
    /\ loc = [p \in Procs |-> Idle]
    /\ fed = 0
    /\ sinkResp = NoResp
    /\ replay \in { [NoReplay EXCEPT !.page = <<item>>, !.pass = 1, !.at = 1] :
                      item \in DeltaItems }
    /\ probe = NoProbe
    /\ pager = NoPager

SpecItem == InitItem /\ [][NextReplay]_vars

(* validateToken alone, for every outcome of the probe. *)
InitProbe ==
    /\ PROCESS_DELTA_ENABLED = TRUE
    /\ configInstance = "null"
    /\ driveItems = {}
    /\ changeEvents = <<>>
    /\ deltaState = [d \in DriveIds |-> NoState]
    /\ webhookSubscriptions = {}
    /\ graphSubscriptions = {}
    /\ subSeq = [db |-> 0, graph |-> 0]
    /\ now = 0
    /\ loc = [p \in Procs |-> Idle]
    /\ fed = 0
    /\ sinkResp = NoResp
    /\ replay = NoReplay
    /\ probe \in { [NoProbe EXCEPT !.outcome = outcome] : outcome \in ProbeOutcomes }
    /\ pager = NoPager

NextProbe == ProbeSettles

SpecProbe == InitProbe /\ [][NextProbe]_vars

(* queryDeltaComplete alone, for every chain of pages and with or without a
   stored delta link; each pending call of queryDelta settles. *)
InitPager ==
    /\ PROCESS_DELTA_ENABLED = TRUE
    /\ configInstance = "null"
    /\ driveItems = {}
    /\ changeEvents = <<>>
    /\ deltaState = [d \in DriveIds |-> NoState]
    /\ webhookSubscriptions = {}
    /\ graphSubscriptions = {}
    /\ subSeq = [db |-> 0, graph |-> 0]
    /\ now = 0
    /\ loc = [p \in Procs |-> Idle]
    /\ fed = 0
    /\ sinkResp = NoResp
    /\ replay = NoReplay
    /\ probe = NoProbe
    /\ pager \in { [NoPager EXCEPT !.chain = chain, !.deltaLink = deltaLink,
                                   !.currentLink = deltaLink] :
                     chain \in Chains, deltaLink \in {UndefinedStr, "C1"} }

NextPager ==
    \/ QueryDeltaResolves
    \/ QueryDeltaRejects

SpecPager == InitPager /\ [][NextPager]_vars /\ WF_vars(NextPager)

(* ensureSubscription run by later bootstraps, and cleanupExpiredSubscriptions,
   on what earlier bootstraps left:
   the records of the subscriptions created at time 0 (one, or one by each
   of the bootstraps that ran together), some hours later, the provider
   having dropped any of them that expired. *)
InitSub ==
    /\ PROCESS_DELTA_ENABLED = TRUE
    /\ configInstance = "true"
    /\ driveItems = {}
    /\ changeEvents = <<>>
    /\ deltaState = [d \in DriveIds |-> NoState]
    /\ \E k \in 0..Cardinality(Procs) :
         /\ webhookSubscriptions =
              { [id |-> i, subscriptionId |-> i,
                 expiration |-> calculateExpirationDateTime(0)] : i \in 1..k }
         /\ subSeq = [db |-> k, graph |-> k]
    /\ graphSubscriptions \in
         SUBSET { [id |-> r.subscriptionId, expiration |-> r.expiration] :
                    r \in webhookSubscriptions }
    /\ now \in { t \in 0..MaxNow : t % TickHours = 0 }
    /\ \A r \in webhookSubscriptions :
         r.expiration > now => \E g \in graphSubscriptions : g.id = r.subscriptionId
    /\ loc \in { l \in [Procs -> { Idle,
                                   [Idle EXCEPT !.fn = "boot", !.pc = "subFind"],
                                   [Idle EXCEPT !.fn = "cleanup", !.pc = "cleanFind"] }] :
                   l["p1"] # Idle }
    /\ fed = 0
    /\ sinkResp = NoResp
    /\ replay = NoReplay
    /\ probe = NoProbe
    /\ pager = NoPager

NextSub ==
    \/ \E p \in Procs : SubFind(p)
    \/ \E p \in Procs : SubGet(p)
    \/ \E p \in Procs : SubRenew(p)
    \/ \E p \in Procs : SubUpdate(p)
    \/ \E p \in Procs : SubDelete(p)
    \/ \E p \in Procs : SubCreate(p)
    \/ \E p \in Procs : SubPersist(p)
    \/ \E p \in Procs : CleanupFind(p)
    \/ \E p \in Procs : CleanupGet(p)
    \/ \E p \in Procs : CleanupDelete(p)
    \/ \E p \in Procs : StoreCallFails(p)
    \/ \E p \in Procs : GraphCallFails(p)

SpecSub == InitSub /\ [][NextSub]_vars

(* getItemHierarchy called while a page is applied twice to an empty store;
   each awaited store call of it settles. *)
NextHierarchy ==
    \/ ReplayItem
    \/ \E p \in Procs : HierarchyStart(p)
    \/ \E p \in Procs : HierarchyFind(p)
    \/ \E p \in Procs : HierarchyParent(p)

SpecHierarchy ==
    /\ InitReplay
    /\ [][NextHierarchy]_vars
    /\ \A p \in Procs : WF_vars(HierarchyFind(p) \/ HierarchyParent(p))

----------------------------------------------------------------------------
(* Properties. *)

Succeeded(l) == l.pc = "done" /\ l.status \in {"ok", "200"}

Failed(l) == l.pc = "done" /\ l.status \in {"threw", "500"}

ItemPcs == {"find", "findParent", "upsert", "insert"}

(* C1: when a pass of processDelta returns without error, the cursor stored
   for the drive is the deltaLink of the terminal page fetched in that pass
   (and the cursor it had, when the terminal page carried none).  Checked on
   the step that ends the invocation running the pass. *)
C1_CursorIsFinalDeltaLink ==
    [][\A p \in Procs :
         (loc[p].pc \in {"query", "insert", "find", "findParent", "updateToken"}
            /\ Succeeded(loc'[p]))
         => \A d \in DriveIds :
              deltaState'[d] = IF loc[p].final # UndefinedStr
                               THEN loc[p].final ELSE deltaState[d]]_vars

(* A worker whose pass applied items has returned and the cursor is a
   deltaLink. *)
C1_Witness ==
    \E p \in Procs :
        /\ loc[p] = Done("worker", "ok")
        /\ fed = MaxFed
        /\ deltaState["d1"] \in Cursors

(* C2: a failure while an item is applied ends the pass in error with the
   cursor as it was, and the cursor is written only by an invocation that
   has applied every item of its pass (or by the clear that precedes the
   pass of an initial sync): a pass writes no cursor before its items, so
   the cursor it leaves on a failure is the one it started with. *)
C2_ItemFailureKeepsCursor ==
    [][/\ \A p \in Procs :
            (loc[p].pc \in ItemPcs /\ loc'[p].pc = "done" /\ ~Succeeded(loc'[p]))
            => (Failed(loc'[p]) /\ deltaState' = deltaState)
       /\ (deltaState' # deltaState)
            => \E p \in Procs :
                 /\ loc'[p] # loc[p]
                 /\ \/ loc[p].pc = "updateToken" /\ loc[p].left = 0
                    \/ loc[p].pc = "clearUpdate"]_vars

(* One invocation ran alone: its first item was committed (row and event),
   its second item's insert failed after the upsert, and the drive has no
   cursor. *)
C2_Witness ==
    /\ loc["p1"] = Done("worker", "threw")
    /\ loc["p2"] = Idle
    /\ Cardinality(driveItems) = 2
    /\ Len(changeEvents) = 1
    /\ deltaState["d1"] = NoState

(* C3: a page applied a second time, against the store its first pass left
   (the first pass having applied all of it), appends no event and leaves
   every item as it is. *)
C3_ReplayIsIdempotent ==
    (replay.pass = 3 /\ ~replay.failed)
    => (Len(changeEvents) = replay.before /\ driveItems = replay.rows)

(* C4: the item write and the event insert of one item are committed
   together or not at all: whenever no invocation is between the two calls,
   every item row has an event. *)
C4_ItemAndEventAtomic ==
    (\A p \in Procs : loc[p].pc # "insert")
    => \A r \in driveItems :
         \E i \in 1..Len(changeEvents) : changeEvents[i].driveItemId = r.id

(* C5: a worker invocation that starts with the gate disabled ends in that
   step (it never gets to the probe, the drive lookup or the delta query)
   and writes nothing: items, events, cursor, subscriptions. *)
C5_GateDisabledIsNoop ==
    [][\A p \in Procs :
         (loc[p].pc = "idle" /\ loc'[p].fn = "worker" /\ ~PROCESS_DELTA_ENABLED)
         => /\ loc'[p] = Done("worker", "skipped")
            /\ UNCHANGED <<storeVars, subVars, fed, PROCESS_DELTA_ENABLED>>]_vars

(* The first invocation was a worker that found the gate disabled. *)
C5_Witness ==
    /\ loc["p1"] = Done("worker", "skipped")
    /\ ~PROCESS_DELTA_ENABLED

(* The live subscription records: the most recent record of the resource,
   when the provider holds its subscription and that has not expired. *)
LiveSubscriptions(rows, subs, t) ==
    { r \in rows :
        /\ r = FirstByResource(rows)
        /\ \E g \in subs : g.id = r.subscriptionId /\ g.expiration > t }

(* C6: when startRoutine answers 200 the gate is enabled and the table
   holds exactly one live subscription record for the resource. *)
C6_BootstrapLeavesOneLiveSubscription ==
    [][\A p \in Procs :
         (loc[p].fn = "boot" /\ loc[p].pc # "done" /\ loc'[p] = Done("boot", "200"))
         => /\ PROCESS_DELTA_ENABLED'
            /\ Cardinality(LiveSubscriptions(webhookSubscriptions',
                                             graphSubscriptions', now')) = 1]_vars

(* A bootstrap answered 200 after replacing a record whose subscription the
   provider had dropped. *)
C6_Witness ==
    /\ loc["p2"] = Done("boot", "200")
    /\ now > 0
    /\ subSeq.db = 2

(* C7: a worker that finds the credential rejected ends with the gate
   disabled and the store (items, events, cursor) as it was; the gate is
   enabled again only by a bootstrap answering 200; and a worker that starts
   while the gate is disabled does nothing. *)
C7_RejectedCredentialClosesGate ==
    [][/\ \A p \in Procs :
            (loc[p].fn = "worker" /\ loc[p].pc = "validate"
               /\ loc'[p].pc = "done" /\ loc'[p].status = "invalid")
            => (~PROCESS_DELTA_ENABLED' /\ UNCHANGED storeVars)
       /\ (~PROCESS_DELTA_ENABLED /\ PROCESS_DELTA_ENABLED')
            => \E p \in Procs : loc[p].fn = "boot" /\ loc'[p] = Done("boot", "200")
       /\ \A p \in Procs :
            (loc[p].pc = "idle" /\ loc'[p].fn = "worker" /\ ~PROCESS_DELTA_ENABLED)
            => (loc'[p].pc = "done" /\ UNCHANGED storeVars)]_vars

(* The gate was enabled, a worker found the credential rejected, and the
   next worker was skipped. *)
C7_Witness ==
    /\ loc["p1"].pc = "done" /\ loc["p1"].status = "invalid"
    /\ loc["p2"] = Done("worker", "skipped")
    /\ ~PROCESS_DELTA_ENABLED

Range(seq) == { seq[i] : i \in 1..Len(seq) }

(* C8: the sink changes no state (items, events, cursor, subscriptions,
   gate); an entry whose clientState is not the configured secret never
   reaches the point where its delta processing is queued; the other entries
   of the payload are still handled (they reach it when the cached
   configuration has processing enabled). *)
C8_MismatchedClientStateRejected ==
    [][/\ UNCHANGED <<storeVars, subVars, PROCESS_DELTA_ENABLED>>
       /\ \A i \in 1..Len(sinkResp'.payload) :
            LET entry == sinkResp'.payload[i] IN
            /\ entry.clientState # WEBHOOK_CLIENT_STATE
                 => i \notin Range(sinkResp'.accepted)
            /\ (entry.clientState = WEBHOOK_CLIENT_STATE /\ configInstance' = "true")
                 => i \in Range(sinkResp'.accepted)]_vars

(* A payload whose first entry has a wrong clientState and whose second has
   the right one: only the second was taken. *)
C8_Witness ==
    /\ sinkResp.status = "200"
    /\ Len(sinkResp.payload) = 2
    /\ sinkResp.payload[1].clientState = "other"
    /\ sinkResp.payload[2].clientState = WEBHOOK_CLIENT_STATE
    /\ sinkResp.accepted = <<2>>

(* C9: a CREATE event is the earliest event of its item: no event of the
   same item precedes it. *)
C9_CreateIsFirstEvent ==
    \A j \in 1..Len(changeEvents) :
        changeEvents[j].eventType = "CREATE"
        => \A i \in 1..(j - 1) :
             changeEvents[i].driveItemId # changeEvents[j].driveItemId

(* C10: for a live observation of a known item the event is decided by the
   stored name and parent and the observed name and resolved parent: parent
   differs gives MOVE, else name differs gives RENAME, else no event and no
   item write; a resolved parent that is missing equals a stored parent that
   is missing. *)
C10_EventKindTable ==
    [][LET observed == replay.page[replay.at]
           known == FindByItemId(driveItems, observed.id)
           resolved == ResolveParentId(driveItems, observed)
           parentDiffers == known.parentId # DbId(resolved)
           nameDiffers == known.name # observed.name
           kind == IF parentDiffers THEN "MOVE"
                   ELSE IF nameDiffers THEN "RENAME" ELSE "NONE"
       IN  (replay.pass \in {1, 2} /\ ~observed.deleted /\ known # NoRow)
           => IF kind = "NONE"
              THEN changeEvents' = changeEvents /\ driveItems' = driveItems
              ELSE /\ Len(changeEvents') = Len(changeEvents) + 1
                   /\ changeEvents'[Len(changeEvents')].eventType = kind
                   /\ changeEvents'[Len(changeEvents')].driveItemId = known.id]_vars

(* The event a step of a pass running alone has appended. *)
Appended == changeEvents'[Len(changeEvents')]

(* C11: every appended event carries the fields of its kind and the internal
   id of its item: CREATE the observed name and the resolved parent; RENAME
   the stored and the observed name; MOVE the stored and the resolved
   parent and, when the name differs too, the stored and the observed
   name. *)
C11_EventFields ==
    [][LET observed == replay.page[replay.at]
           known == FindByItemId(driveItems, observed.id)
           resolved == ResolveParentId(driveItems, observed)
       IN  (replay.pass \in {1, 2} /\ Len(changeEvents') = Len(changeEvents) + 1)
           => /\ Appended.driveItemId = FindByItemId(driveItems', observed.id).id
              /\ Appended.eventType = "CREATE"
                   => /\ known = NoRow
                      /\ Appended.newName = observed.name
                      /\ Appended.newParentId = DbId(resolved)
              /\ Appended.eventType = "RENAME"
                   => /\ Appended.driveItemId = known.id
                      /\ Appended.oldName = known.name
                      /\ Appended.newName = observed.name
              /\ Appended.eventType = "MOVE"
                   => /\ Appended.driveItemId = known.id
                      /\ Appended.oldParentId = known.parentId
                      /\ Appended.newParentId = DbId(resolved)
                      /\ known.name # observed.name
                           => /\ Appended.oldName = known.name
                              /\ Appended.newName = observed.name]_vars

(* An item was moved out of its parent and renamed in one observation: the
   MOVE has the old parent and both names (Scenario C), after the CREATE
   events of the items. *)
C11_Witness ==
    /\ \E i \in 1..Len(changeEvents) :
         /\ changeEvents[i].eventType = "MOVE"
         /\ changeEvents[i].oldParentId # Null
         /\ changeEvents[i].oldName # NullStr
         /\ changeEvents[i].newName # changeEvents[i].oldName
    /\ \E i \in 1..Len(changeEvents) : changeEvents[i].eventType = "CREATE"

(* The path of a row from its parent chain: the names of its ancestors from
   the root down, then its own (the chain is followed for at most n rows). *)
RECURSIVE PathOf(_, _, _)
PathOf(rows, r, n) ==
    IF r.parentId = Null \/ n = 0 \/ FindById(rows, r.parentId) = NoRow
    THEN <<r.name>>
    ELSE PathOf(rows, FindById(rows, r.parentId), n - 1) \o <<r.name>>

(* C12: after a pass that ended without error on a store that was empty,
   every item (each was written in that pass) has the path of its parent
   chain: '/' and the names of its ancestors and its own, joined by '/'. *)
C12_PathFromAncestors ==
    (replay.pass = 2 /\ replay.at = 1 /\ ~replay.failed)
    => \A r \in driveItems : r.path = PathOf(driveItems, r, Cardinality(driveItems))

(* C13: a tombstone for a known item that is not deleted sets the item's
   deleted flag and appends one DELETE event with the item's stored name,
   and the pass goes on (it does not end in error before its cursor
   write). *)
C13_TombstoneDeletes ==
    [][LET observed == replay.page[replay.at]
           known == FindByItemId(driveItems, observed.id)
       IN  (replay.pass = 1 /\ observed.deleted /\ known # NoRow /\ ~known.isDeleted)
           => /\ FindByItemId(driveItems', observed.id).isDeleted
              /\ Len(changeEvents') = Len(changeEvents) + 1
              /\ Appended.eventType = "DELETE"
              /\ Appended.driveItemId = known.id
              /\ Appended.oldName = known.name
              /\ ~replay'.failed]_vars

(* C14: a tombstone for an item the store does not know, or knows as
   deleted, is a no-op: no item changes, no event is appended, and the pass
   goes on. *)
C14_TombstoneOfAbsentItemIsNoop ==
    [][LET observed == replay.page[replay.at]
           known == FindByItemId(driveItems, observed.id)
       IN  (replay.pass = 1 /\ observed.deleted /\ (known = NoRow \/ known.isDeleted))
           => /\ driveItems' = driveItems
              /\ changeEvents' = changeEvents
              /\ ~replay'.failed]_vars

Handshake(resp) == resp.validationToken # UndefinedStr /\ resp.validationToken # ""

(* C15: a request with a validationToken is answered 200, text/plain, the
   token as body, without the body being read, the configuration (and with
   it the gate) consulted, the store touched or an entry taken. *)
C15_HandshakeEchoesToken ==
    [][Handshake(sinkResp')
       => /\ sinkResp'.status = "200"
          /\ sinkResp'.contentType = "text/plain"
          /\ sinkResp'.body = sinkResp'.validationToken
          /\ ~sinkResp'.bodyRead
          /\ sinkResp'.accepted = <<>> /\ sinkResp'.enqueued = <<>>
          /\ UNCHANGED <<gateVars, storeVars, subVars>>]_vars

(* A validation request whose body does not parse was answered with its
   token, the configuration not yet loaded. *)
C15_Witness ==
    /\ sinkResp.validationToken = "t1"
    /\ sinkResp.malformed
    /\ sinkResp.status = "200"
    /\ sinkResp.body = "t1"
    /\ configInstance = "null"

(* C16: with the gate enabled (as a successful bootstrap leaves it), every
   entry of a notification whose clientState is the shared secret has a
   reconciliation job enqueued. *)
C16_MatchingEntryEnqueued ==
    (sinkResp.status = "200" /\ ~Handshake(sinkResp) /\ PROCESS_DELTA_ENABLED)
    => \A i \in 1..Len(sinkResp.payload) :
         sinkResp.payload[i].clientState = WEBHOOK_CLIENT_STATE
         => i \in Range(sinkResp.enqueued)

(* The passes of processDelta in progress: the invocations between the
   call of processDelta (or of performInitialSync) and its return. *)
PassPcs == {"clearFind", "clearUpdate", "readCursor", "query", "find",
            "findParent", "upsert", "insert", "updateToken"}

(* C17: at most one pass runs for the drive at any instant. *)
C17_OnePassPerDrive ==
    Cardinality({ p \in Procs : loc[p].pc \in PassPcs }) <= 1

(* C18: startRoutine answers 401 exactly when validateToken came back
   invalid, on that step and with nothing done (no item, event, cursor or
   subscription written, no delta fetched, gate as it was); it ends with
   200, 401 or 500, and every failure after the validation is a 500. *)
C18_BootstrapStatusCodes ==
    [][\A p \in Procs :
         (loc[p].fn = "boot" /\ loc[p].pc # "done" /\ loc'[p].pc = "done")
         => /\ loc'[p].status \in {"200", "401", "500"}
            /\ (loc'[p].status = "401") <=> (loc[p].pc = "validate")
            /\ loc[p].pc = "validate"
                 => UNCHANGED <<storeVars, subVars, fed, gateVars>>]_vars

(* A bootstrap was refused with 401 and another failed later with 500. *)
C18_Witness ==
    /\ loc["p1"] = Done("boot", "401")
    /\ loc["p2"] = Done("boot", "500")
    /\ graphSubscriptions # {}

(* C19: validateToken returns and never throws: isValid with the user's id
   and principal name when the probe succeeds, and isValid = false with an
   error text for every failure of the probe. *)
C19_ValidateTokenNeverThrows ==
    probe.returned
    => /\ ~probe.result.threw
       /\ IF probe.outcome.statusCode = 200
          THEN /\ probe.result.isValid
               /\ probe.result.userId = probe.outcome.id
               /\ probe.result.userPrincipalName = probe.outcome.userPrincipalName
          ELSE /\ ~probe.result.isValid
               /\ probe.result.error \notin {UndefinedStr, ""}

(* The probe failed without status code or message (a network error) and
   validateToken returned 'Unknown error'. *)
C19_Witness ==
    /\ probe.returned
    /\ probe.outcome.statusCode = 0
    /\ probe.outcome.message = ""
    /\ probe.result.error = "Unknown error"

(* C20: a request without validationToken whose body does not parse is
   answered 400, no entry is taken and no job enqueued. *)
C20_MalformedBodyIs400 ==
    (sinkResp.malformed /\ ~Handshake(sinkResp) /\ sinkResp.status # "none")
    => /\ sinkResp.status = "400"
       /\ sinkResp.accepted = <<>>
       /\ sinkResp.enqueued = <<>>

(* The steps of startRoutine in the order of its source: credential
   validation, drive resolution, ensureSubscription, performInitialSync. *)
BootStep(pc) ==
    IF pc = "idle" THEN 0
    ELSE IF pc = "validate" THEN 1
    ELSE IF pc = "drive" THEN 2
    ELSE IF pc \in {"subFind", "subGet", "subRenew", "subUpdate", "subDelete",
                    "subCreate", "subPersist"} THEN 3
    ELSE IF pc \in PassPcs THEN 4
    ELSE 5

(* C21: the gate goes from disabled to enabled only on the step on which a
   startRoutine invocation returns 200 out of performInitialSync; the
   invocation went through validation, drive resolution, ensureSubscription
   and performInitialSync in that order, never back; and an invocation of
   startRoutine that ends with 401 or 500 leaves the gate as it was. *)
C21_GateEnabledOnlyByCompletedBootstrap ==
    [][/\ (~PROCESS_DELTA_ENABLED /\ PROCESS_DELTA_ENABLED')
            => \E p \in Procs :
                 /\ loc[p].fn = "boot"
                 /\ BootStep(loc[p].pc) = 4
                 /\ loc'[p] = Done("boot", "200")
       /\ \A p \in Procs :
            /\ (loc'[p].fn = "boot" /\ loc[p].pc # "done")
                 => /\ BootStep(loc'[p].pc) >= BootStep(loc[p].pc)
                    /\ BootStep(loc'[p].pc) <= BootStep(loc[p].pc) + 1
                         \/ loc'[p].pc = "done"
            /\ (loc[p].pc # "done" /\ loc'[p].fn = "boot" /\ loc'[p].pc = "done"
                  /\ loc'[p].status # "200")
                 => PROCESS_DELTA_ENABLED' = PROCESS_DELTA_ENABLED]_vars

(* The gate was disabled when the first invocation, a worker, looked at it,
   and a bootstrap then ran to its end and enabled it. *)
C21_Witness ==
    /\ loc["p1"] = Done("worker", "skipped")
    /\ loc["p2"] = Done("boot", "200")
    /\ PROCESS_DELTA_ENABLED
    /\ changeEvents # <<>>

(* C22: every step leaves the events written so far in place and unchanged
   (the log only grows), and leaves every item row in the table, under its
   internal id and with its external id. *)
C22_EventsAppendOnlyItemsNeverRemoved ==
    [][/\ Len(changeEvents') >= Len(changeEvents)
       /\ \A i \in 1..Len(changeEvents) : changeEvents'[i] = changeEvents[i]
       /\ \A r \in driveItems :
            \E q \in driveItems' : q.id = r.id /\ q.itemId = r.itemId]_vars

(* An item was created and then changed: two events, the second a RENAME or
   a MOVE of the row of the first. *)
C22_Witness ==
    /\ Len(changeEvents) >= 2
    /\ changeEvents[1].eventType = "CREATE"
    /\ changeEvents[2].eventType \in {"RENAME", "MOVE"}
    /\ changeEvents[2].driveItemId = changeEvents[1].driveItemId
    /\ \E r \in driveItems : r.id = changeEvents[1].driveItemId

(* C23: once a pass has applied a live observation of an item, the item's
   row is not flagged deleted, whatever the row was before. *)
C23_LiveObservationClearsDeleted ==
    (replay.pass >= 2 /\ ~replay.failed /\ ~replay.page[1].deleted)
    => ~FindByItemId(driveItems, replay.page[1].id).isDeleted

(* Positions i < j of the page where a new child comes before its new
   parent: both live, the child names the parent, the parent is not seen
   before j and the child is seen at i only. *)
ChildBeforeParent(page, i, j) ==
    /\ i < j
    /\ ~page[i].deleted /\ ~page[j].deleted
    /\ page[i].parentReference = page[j].id
    /\ \A k \in 1..Len(page) : page[k].id = page[i].id => k = i
    /\ \A k \in 1..Len(page) : page[k].id = page[j].id => k >= j

(* C24: after a pass over a page that lists a new child before its new
   parent, the child's row has the parent's internal id as parentId and the
   child's CREATE event has it as newParentId. *)
C24_ChildBeforeParentIsDeferred ==
    (replay.pass = 2 /\ replay.at = 1 /\ ~replay.failed)
    => \A i, j \in 1..Len(replay.page) :
         ChildBeforeParent(replay.page, i, j)
         => LET child == FindByItemId(replay.rows, replay.page[i].id)
                parent == FindByItemId(replay.rows, replay.page[j].id)
            IN  /\ child.parentId = parent.id
                /\ \E n \in 1..replay.before :
                     /\ changeEvents[n].driveItemId = child.id
                     /\ changeEvents[n].eventType = "CREATE"
                     /\ changeEvents[n].newParentId = parent.id

(* C25: when a pass has written a live item that names a parent (the item
   was created or changed: an event was logged), the row of the item, if not
   deleted itself, does not have a deleted row as its parent. *)
C25_ParentIsNeverSoftDeleted ==
    (replay.pass >= 2 /\ ~replay.failed /\ ~replay.page[1].deleted
       /\ replay.page[1].parentReference # UndefinedStr /\ changeEvents # <<>>)
    => LET r == FindByItemId(driveItems, replay.page[1].id) IN
       (~r.isDeleted /\ r.parentId # Null)
       => ~FindById(driveItems, r.parentId).isDeleted

(* The items of pages 1..t of the chain, in page order. *)
RECURSIVE ItemsThrough(_, _)
ItemsThrough(chain, t) ==
    IF t = 0 THEN <<>> ELSE ItemsThrough(chain, t - 1) \o chain[t].items

(* Page t is the terminal page of the chain: the first page without
   nextLink, reached from page 1 through the nextLinks. *)
TerminalPage(chain, t) ==
    /\ chain[t].nextLink = UndefinedStr
    /\ \A i \in 1..(t - 1) : chain[i].nextLink = PageLinks[i + 1]

(* C26: when queryDeltaComplete returns, it returns the items of the pages up
   to the terminal page (the first page without nextLink, a page with both
   links not being terminal), in page order, and that page's deltaLink; and
   it returns (or rejects with the failure of a queryDelta) whenever the
   chain of nextLinks ends. *)
C26_QueryDeltaCompleteFollowsChain ==
    /\ [](pager.returned /\ ~pager.threw
            => \E t \in 1..Len(pager.chain) :
                 /\ TerminalPage(pager.chain, t)
                 /\ pager.fetched = t
                 /\ pager.allItems = ItemsThrough(pager.chain, t)
                 /\ pager.finalDeltaLink = pager.chain[t].deltaLink)
    /\ (\E t \in 1..Len(pager.chain) : TerminalPage(pager.chain, t))
         => <>pager.returned

(* queryDeltaComplete returned after three pages, the first of which carried
   a deltaLink next to its nextLink, with the items of two pages and the
   deltaLink of the third. *)
C26_Witness ==
    /\ pager.returned /\ ~pager.threw
    /\ pager.fetched = 3
    /\ pager.chain[1].deltaLink = "C1"
    /\ pager.chain[3].deltaLink = "C2"
    /\ pager.finalDeltaLink = "C2"
    /\ pager.allItems = <<"a", "b">>

(* C27: the first delta query of a bootstrap's performInitialSync is made
   without a cursor: the link it passes to queryDelta is absent or empty, so
   the default URL is requested. *)
C27_InitialSyncQueriesWithoutCursor ==
    \A p \in Procs :
        (loc[p].fn = "boot" /\ loc[p].pc = "query" /\ loc[p].pages = 0)
        => DeltaUrl(loc[p].link) = "/me/drive/root/delta"

(* C28: when getSubscription resolves with the provider's subscription of the
   local record and more than 24 hours are left, ensureSubscription returns
   on that step (performInitialSync is next), and neither that step nor the
   findByResource before it changes the provider's subscriptions or the
   local records. *)
C28_ValidSubscriptionIsLeftAlone ==
    [][\A p \in Procs :
         /\ (loc[p].pc = "subGet" /\ loc'[p].pc \notin {"subGet", "done"}
               /\ \E g \in graphSubscriptions :
                    /\ g.id = loc[p].subId
                    /\ g.expiration - now > RENEW_THRESHOLD_HOURS)
              => /\ loc'[p].pc = "clearFind"
                 /\ UNCHANGED <<webhookSubscriptions, graphSubscriptions, subSeq>>
         /\ (loc[p].pc = "subFind" /\ loc'[p].pc = "subGet")
              => UNCHANGED <<webhookSubscriptions, graphSubscriptions, subSeq>>]_vars

(* Two bootstraps are past ensureSubscription and only one subscription was
   ever created: the other bootstrap found it valid and left it alone. *)
C28_Witness ==
    /\ loc["p1"] = Done("boot", "200")
    /\ loc["p2"].fn = "boot" /\ loc["p2"].pc = "clearFind"
    /\ subSeq = [db |-> 1, graph |-> 1]
    /\ Cardinality(webhookSubscriptions) = 1
    /\ \E g \in graphSubscriptions : g.expiration - now > RENEW_THRESHOLD_HOURS

(* C29: when the provider's subscription has 24 hours or less left, the
   renewal sets it to now + T_SUB, and the updateExpiration that follows
   leaves the local record with the renewed expiry and lets
   ensureSubscription return. *)
C29_RenewalUpdatesLocalRecord ==
    [][\A p \in Procs :
         /\ (loc[p].pc = "subRenew" /\ loc'[p].pc = "subUpdate")
              => \E g \in graphSubscriptions' :
                    /\ g.id = loc[p].subId
                    /\ g.expiration = now + T_SUB_HOURS
         /\ (loc[p].pc = "subUpdate" /\ loc'[p] # loc[p])
              => /\ loc'[p].pc = "clearFind"
                 /\ \E r \in webhookSubscriptions' :
                      /\ r.id = loc[p].dbSub
                      /\ r.expiration = loc[p].exp]_vars

(* C30: when ensureSubscription returns after it found the provider's
   subscription of the local record gone (it deleted the record, created a
   subscription and persisted it), every local record of the resource refers
   to a subscription the provider has. *)
C30_NoRecordOfAbsentSubscription ==
    [][\A p \in Procs :
         (loc[p].pc = "subPersist" /\ loc[p].dbSub # 0 /\ loc'[p].pc = "clearFind")
         => \A r \in webhookSubscriptions' :
              \E g \in graphSubscriptions' : g.id = r.subscriptionId]_vars

(* C31: cleanupExpiredSubscriptions removes a record only by its delete, and
   then only the one record it checked, whose expiry is in the past and whose
   provider subscription does not exist; no other step of it changes the
   records; and when it returns, no record is left whose expiry is in the
   past and whose provider subscription does not exist. *)
C31_CleanupRemovesExpiredAndAbsent ==
    [][\A p \in Procs :
         (loc[p].fn = "cleanup" /\ loc'[p] # loc[p])
         => /\ webhookSubscriptions' # webhookSubscriptions
                 => /\ loc[p].pc = "cleanDelete"
                    /\ \E r \in webhookSubscriptions :
                         /\ r.id = loc[p].dbSub
                         /\ r.expiration < now
                         /\ ~\E g \in graphSubscriptions : g.id = r.subscriptionId
                         /\ webhookSubscriptions' = webhookSubscriptions \ {r}
            /\ loc'[p] = Done("cleanup", "ok")
                 => \A r \in webhookSubscriptions' :
                      \/ r.expiration >= now
                      \/ \E g \in graphSubscriptions : g.id = r.subscriptionId]_vars

(* The cleanup ran alone on two expired records and returned: the record
   whose subscription the provider had dropped is gone, the other is left. *)
C31_Witness ==
    /\ loc["p1"] = Done("cleanup", "ok")
    /\ loc["p2"] = Idle
    /\ subSeq.db = 2
    /\ Cardinality(webhookSubscriptions) = 1
    /\ \A r \in webhookSubscriptions :
         /\ r.expiration < now
         /\ \E g \in graphSubscriptions : g.id = r.subscriptionId

----------------------------------------------------------------------------
(* The gate and the provider's rejections. *)

(* The step ends the worker invocation of p. *)
WorkerEnds(p) ==
    /\ loc[p].fn = "worker"
    /\ loc[p].pc # "done"
    /\ loc'[p].pc = "done"

(* C32: when a worker invocation ends after a gateway call of it (the probe,
   getUserDriveId or queryDelta) was rejected with 401 or 403, the gate is
   disabled, whatever the message of the rejection. *)
C32_CredentialRejectionClosesGate ==
    [][\A p \in Procs :
         (WorkerEnds(p) /\ loc'[p].rejected \in {401, 403})
         => ~PROCESS_DELTA_ENABLED']_vars

(* C33: when a bootstrap ends with 401 because the credential was found
   invalid, the gate is disabled. *)
C33_FailedBootstrapClosesGate ==
    [][\A p \in Procs :
         (loc[p].fn = "boot" /\ loc[p].pc = "validate"
            /\ loc'[p] = Done("boot", "401"))
         => ~PROCESS_DELTA_ENABLED']_vars

(* C34: a worker invocation that ends because the probe or a gateway call
   failed without statusCode or with 5xx, or because a store call failed,
   leaves the gate as it was. *)
C34_TransientFailureKeepsGate ==
    [][\A p \in Procs :
         (/\ WorkerEnds(p)
          /\ \/ loc'[p].rejected = 0
             \/ loc'[p].rejected >= 500
             \/ loc[p].pc \in StorePcs /\ loc'[p].status = "threw")
         => PROCESS_DELTA_ENABLED' = PROCESS_DELTA_ENABLED]_vars

(* C35: a worker invocation that ends after the probe or a gateway call of
   it was rejected with 401 or 403 has disabled the gate and returns: it
   does not throw. *)
C35_CredentialErrorReturns ==
    [][\A p \in Procs :
         (WorkerEnds(p) /\ loc'[p].rejected \in {401, 403})
         => /\ ~PROCESS_DELTA_ENABLED'
            /\ loc'[p].status # "threw"]_vars

(* C36: the sink decides on the gate's current value: of every notification
   payload it lets through the entries with a valid client state when the
   gate is enabled, and none when it is disabled. *)
C36_SinkObservesGate ==
    \A payload \in Payloads :
        OnOneDriveWebhookNotification([NoResp EXCEPT !.payload = payload],
                                      configInstance, PROCESS_DELTA_ENABLED).resp.accepted
        = Queued(payload, IF isDeltaProcessingEnabled THEN "true" ELSE "false", 1)

(* C37: the provider holds at most one subscription of the resource that
   ensureSubscription created and that has not expired. *)
C37_AtMostOneProviderSubscription ==
    Cardinality({ g \in graphSubscriptions : g.expiration > now }) <= 1

(* C38: while the gate is disabled no step of a worker invocation writes an
   item, a change event or the cursor. *)
C38_NoWriteWhileGateDisabled ==
    [][\A p \in Procs :
         (loc[p].fn = "worker" /\ loc'[p] # loc[p] /\ ~isDeltaProcessingEnabled)
         => UNCHANGED <<driveItems, changeEvents, deltaState>>]_vars

(* C39: every call of getItemHierarchy ends: it returns or throws. *)
C39_HierarchyTerminates ==
    \A p \in Procs : (loc[p].fn = "hierarchy") ~> (loc[p].pc = "done")

(* C40: when a bootstrap fails in performInitialSync after clearDeltaToken,
   the cursor of the drive is empty (no row, or the empty string). *)
C40_FailedInitialSyncLeavesCursorEmpty ==
    [][\A p \in Procs :
         (/\ loc[p].fn = "boot"
          /\ loc[p].pc \in PassPcs \ {"clearFind", "clearUpdate"}
          /\ Failed(loc'[p]))
         => \A d \in DriveIds : deltaState'[d] \in {NoState, ""}]_vars

====
